---- MODULE Spec2Model ----
(***************************************************************************)
(* Model of the CircularBuffer of src/index.ts: the ring state (CBState)   *)
(* and the facade (CircularBuffer) that applies the overflow policy.       *)
(*                                                                         *)
(* The backing array is a sequence; physical slot i (0-based, as in the    *)
(* source) is buffer[i + 1].  A JavaScript array grows when a slot at or   *)
(* beyond its length is assigned, so the sequence may become longer than   *)
(* capacity.  Holes and undefined both read as undefined.                  *)
(***************************************************************************)
EXTENDS Integers, Sequences, FiniteSets

\* Largest capacity a buffer is constructed with or resized to.
MaxCap == 2
\* Values written are 1..MaxVal.
MaxVal == 2

\* The empty indicator: what an unset slot reads as and what read()/dump()
\* return on an empty buffer.
undefined == 0

Val == 1..MaxVal
\* Capacities passed to the constructor and to resize: positive, as the
\* constructor's contract requires (capacity 0 makes the cursors NaN).
Capacities == 1..MaxCap

VARIABLES
    bufferState,  \* CBState: [buffer, capacity, writeIndex, readIndex, nElements]
    config,       \* Required<CBConfig>: [overwrite, warnOnFull, notifyOnOverwrite]
    op,           \* the operation that produced this state
    ret,          \* value returned by the last read()/dump() (undefined otherwise)
    arr,          \* array returned by the last toArray() (<<>> otherwise)
    warned,       \* diagnostic the last operation printed: "none", "full", "overwrite"
    thrown,       \* TRUE iff the last operation threw BNCIS
    order,        \* history: physical slots holding a written value that was neither
                  \* dumped nor overwritten, least recently written first
    fresh,        \* history: only write() calls since construction or clear()
    written,      \* history: while fresh, the last (at most MaxCap) values passed to write()
    nWritten,     \* history: while fresh, the number of write() calls, saturating at MaxCap + 1
    reads,        \* history: results of the latest consecutive read() calls on a
                  \* non-empty buffer (a window of at most capacity + 1)
    wasEmpty,     \* history: the buffer was empty before the last operation
    iterator      \* the iterator being followed: its state ("none", "open", "done")
                  \* and index, with the history of the iteration: pending, the
                  \* elements toArray() gave when the iteration started that it
                  \* has not reached yet, and faithful, whether every next() so
                  \* far gave the element of that array at its position

vars == <<bufferState, config, op, ret, arr, warned, thrown, order, fresh,
          written, nWritten, reads, wasEmpty, iterator>>

Min(a, b) == IF a < b THEN a ELSE b
Max(a, b) == IF a > b THEN a ELSE b

\* xs without the element x.
Without(xs, x) == SelectSeq(xs, LAMBDA y : y # x)

\* The last n elements of xs (all of xs when it is shorter).
LastN(xs, n) == IF Len(xs) <= n THEN xs ELSE SubSeq(xs, Len(xs) - n + 1, Len(xs))

(***************************************************************************)
(* CBState                                                                 *)
(***************************************************************************)

\* new Array(capacity): `capacity` unset slots.
NewArray(capacity) == [i \in 1..capacity |-> undefined]

\* buffer[index] as JavaScript reads it: undefined at or beyond the length.
Slot(buffer, index) == IF index < Len(buffer) THEN buffer[index + 1] ELSE undefined

CBState(capacity) ==
    [buffer |-> NewArray(capacity), capacity |-> capacity,
     writeIndex |-> 0, readIndex |-> 0, nElements |-> 0]

size(s) == s.nElements

\* set elements(value): nElements = Math.max(0, value)
setElements(s, value) == [s EXCEPT !.nElements = Max(0, value)]

isEmpty(s) == size(s) = 0

isFull(s) == size(s) = s.capacity

\* CBState_clear as it would be if the write cursor were not reset.
CBState_clear_keepWriteIndex(s) ==
    [buffer |-> NewArray(s.capacity), capacity |-> s.capacity,
     writeIndex |-> s.writeIndex, readIndex |-> 0, nElements |-> Max(0, 0)]

CBState_clear(s) ==
    [buffer |-> NewArray(s.capacity), capacity |-> s.capacity,
     writeIndex |-> 0, readIndex |-> 0, nElements |-> Max(0, 0)]

\* incReadIndex as it would be if the read cursor stayed where it is.
incReadIndex_stay(s) == s

incReadIndex(s) == [s EXCEPT !.readIndex = (s.readIndex + 1) % s.capacity]

incWriteIndex(s) == [s EXCEPT !.writeIndex = (s.writeIndex + 1) % s.capacity]

\* this.buffer[index] = value: assigning at or beyond the length grows the array.
writeAtIndex(s, index, value) ==
    [s EXCEPT !.buffer =
        IF index < Len(@)
        THEN [@ EXCEPT ![index + 1] = value]
        ELSE @ \o [k \in 1..(index - Len(@)) |-> undefined] \o <<value>>]

readAtIndex(s, index) == Slot(s.buffer, index % s.capacity)

\* CBState_read as it would be if the cursor advanced before the slot is read.
CBState_read_advanceFirst(s) ==
    [value |-> readAtIndex(s, incReadIndex(s).readIndex), state |-> incReadIndex(s)]

\* Returns the value read and the state after the read.
CBState_read(s) ==
    [value |-> readAtIndex(s, s.readIndex), state |-> incReadIndex(s)]

\* countWrite as it would be without the isFull test.
countWrite_always(s) == setElements(s, s.nElements + 1)

\* if (!this.isFull) this.elements += 1
countWrite(s) == IF ~isFull(s) THEN setElements(s, s.nElements + 1) ELSE s

\* CBState_write as it would be without the call of incWriteIndex.
CBState_write_noAdvance(s, value) ==
    countWrite(writeAtIndex(s, s.writeIndex, value))

CBState_write(s, value) ==
    incWriteIndex(countWrite(writeAtIndex(s, s.writeIndex, value)))

\* CBState_resize as it would be if the shrink check did not look at force.
CBState_resize_ignoreForce(s, newCapacity, force) ==
    IF newCapacity < s.capacity
    THEN [state |-> s, thrown |-> TRUE]
    ELSE LET numElementsToCopy == Min(newCapacity, size(s))
             newBuffer == [i \in 1..newCapacity |->
                             IF i - 1 < numElementsToCopy
                             THEN readAtIndex(s, i - 1) ELSE undefined]
         IN  [state |-> [buffer |-> newBuffer, capacity |-> newCapacity,
                         writeIndex |-> numElementsToCopy, readIndex |-> 0,
                         nElements |-> Max(0, numElementsToCopy)],
              thrown |-> FALSE]

\* Returns the state after the call and whether BNCIS was thrown.
CBState_resize(s, newCapacity, force) ==
    IF ~force /\ newCapacity < s.capacity
    THEN [state |-> s, thrown |-> TRUE]
    ELSE LET numElementsToCopy == Min(newCapacity, size(s))
             newBuffer == [i \in 1..newCapacity |->
                             IF i - 1 < numElementsToCopy
                             THEN readAtIndex(s, i - 1) ELSE undefined]
         IN  [state |-> [buffer |-> newBuffer, capacity |-> newCapacity,
                         writeIndex |-> numElementsToCopy, readIndex |-> 0,
                         nElements |-> Max(0, numElementsToCopy)],
              thrown |-> FALSE]

CBState_toArray(s) == [i \in 1..size(s) |-> readAtIndex(s, i - 1)]

(***************************************************************************)
(* CircularBuffer: the facade, as functions of the configuration and the   *)
(* ring state.                                                             *)
(***************************************************************************)

\* Returns the value returned and the state after the call.
CircularBuffer_read(s) ==
    IF isEmpty(s) THEN [value |-> undefined, state |-> s] ELSE CBState_read(s)

\* this.bufferState.elements -= 1
uncountDump(s) == setElements(s, s.nElements - 1)

\* CircularBuffer_dump as it would be without the isEmpty guard.
CircularBuffer_dump_unguarded(s) ==
    [value |-> readAtIndex(s, s.readIndex),
     state |-> incReadIndex(uncountDump(writeAtIndex(s, s.readIndex, undefined)))]

CircularBuffer_dump(s) ==
    IF isEmpty(s)
    THEN [value |-> undefined, state |-> s]
    ELSE [value |-> readAtIndex(s, s.readIndex),
          state |-> incReadIndex(uncountDump(writeAtIndex(s, s.readIndex, undefined)))]

\* Returns the state after the call, the diagnostic printed, and whether the
\* value was stored (wrote) and in which physical slot (at).
CircularBuffer_write(cfg, s, value) ==
    IF ~cfg.overwrite /\ isFull(s) /\ cfg.warnOnFull
    THEN [state |-> s, warned |-> "full", wrote |-> FALSE, at |-> s.writeIndex]
    ELSE IF cfg.overwrite \/ s.writeIndex < s.capacity
    THEN LET t == CBState_write(s, value)
         IN  [state |-> t,
              warned |-> IF cfg.notifyOnOverwrite /\ t.writeIndex = 0
                         THEN "overwrite" ELSE "none",
              wrote |-> TRUE, at |-> s.writeIndex]
    ELSE [state |-> s, warned |-> "none", wrote |-> FALSE, at |-> s.writeIndex]

\* CircularBuffer_toArray as it would be if the buffer were cleared before it is read.
CircularBuffer_toArray_clearFirst(s, clearAfter) ==
    [value |-> CBState_toArray(IF clearAfter THEN CBState_clear(s) ELSE s),
     state |-> IF clearAfter THEN CBState_clear(s) ELSE s]

\* Returns the array returned and the state after the call.
CircularBuffer_toArray(s, clearAfter) ==
    [value |-> CBState_toArray(s),
     state |-> IF clearAfter THEN CBState_clear(s) ELSE s]

\* The iterator's next(), for an iterator whose closure variable is index:
\* the result and the index afterwards.
iterator_next(s, index) ==
    IF index >= size(s)
    THEN [done |-> TRUE, value |-> undefined, index |-> index]
    ELSE [done |-> FALSE, value |-> readAtIndex(s, index), index |-> index + 1]

\* for (const value of buffer): the values next() yields from index on, until
\* it reports done, with no other operation in between.
RECURSIVE iterateFrom(_, _)
\* The rest of the loop after a next() with result r.
iterateAfter(s, r) ==
    IF r.done THEN <<>> ELSE <<r.value>> \o iterateFrom(s, r.index)

iterateFrom(s, index) == iterateAfter(s, iterator_next(s, index))

\* CircularBuffer_writeAll as it would be if the values were written last first.
RECURSIVE CircularBuffer_writeAll_lastFirst(_, _, _)
CircularBuffer_writeAll_lastFirst(cfg, s, values) ==
    IF values = <<>>
    THEN s
    ELSE CircularBuffer_writeAll_lastFirst(
             cfg, CircularBuffer_write(cfg, s, values[Len(values)]).state,
             SubSeq(values, 1, Len(values) - 1))

\* for (const value of values) this.write(value): the state after the loop.
RECURSIVE CircularBuffer_writeAll(_, _, _)
CircularBuffer_writeAll(cfg, s, values) ==
    IF values = <<>>
    THEN s
    ELSE CircularBuffer_writeAll(
             cfg, CircularBuffer_write(cfg, s, Head(values)).state, Tail(values))

\* static from(values, capacity, config): the state of the buffer returned.
CircularBuffer_from(values, capacity, cfg) ==
    CircularBuffer_writeAll(cfg, CBState(capacity), values)

(***************************************************************************)
(* The state machine: one action per public operation.  An action binds    *)
(* the outcome r of the call once and stores its parts.                    *)
(***************************************************************************)

Configs == [overwrite : BOOLEAN, warnOnFull : BOOLEAN, notifyOnOverwrite : BOOLEAN]

\* No iterator is being followed.
NoIterator == [state |-> "none", index |-> 0, pending |-> <<>>, faithful |-> TRUE]

\* new CircularBuffer(capacity, config)
Init ==
    /\ config \in Configs
    /\ \E capacity \in Capacities : bufferState = CBState(capacity)
    /\ op = "new"
    /\ ret = undefined
    /\ arr = <<>>
    /\ warned = "none"
    /\ thrown = FALSE
    /\ order = <<>>
    /\ fresh = TRUE
    /\ written = <<>>
    /\ nWritten = 0
    /\ reads = <<>>
    /\ wasEmpty = TRUE
    /\ iterator = NoIterator

\* What every operation other than write() does to the write history.
NotFresh == fresh' = FALSE /\ written' = <<>> /\ nWritten' = 0

write(value) ==
    \E r \in {CircularBuffer_write(config, bufferState, value)} :
        /\ bufferState' = r.state
        /\ warned' = r.warned
        /\ op' = "write"
        /\ ret' = undefined
        /\ arr' = <<>>
        /\ thrown' = FALSE
        /\ order' = IF r.wrote THEN Append(Without(order, r.at), r.at) ELSE order
        /\ fresh' = fresh
        /\ written' = IF fresh THEN LastN(Append(written, value), MaxCap) ELSE <<>>
        /\ nWritten' = IF fresh THEN Min(nWritten + 1, MaxCap + 1) ELSE 0
        /\ reads' = <<>>
        /\ wasEmpty' = isEmpty(bufferState)
        /\ UNCHANGED <<config, iterator>>

read ==
    \E r \in {CircularBuffer_read(bufferState)} :
        /\ bufferState' = r.state
        /\ ret' = r.value
        /\ op' = "read"
        /\ arr' = <<>>
        /\ warned' = "none"
        /\ thrown' = FALSE
        /\ reads' = IF isEmpty(bufferState) THEN <<>>
                    ELSE LastN(Append(reads, r.value), bufferState.capacity + 1)
        /\ wasEmpty' = isEmpty(bufferState)
        /\ NotFresh
        /\ UNCHANGED <<config, order, iterator>>

dump ==
    \E r \in {CircularBuffer_dump(bufferState)} :
        /\ bufferState' = r.state
        /\ ret' = r.value
        /\ op' = "dump"
        /\ arr' = <<>>
        /\ warned' = "none"
        /\ thrown' = FALSE
        /\ order' = IF isEmpty(bufferState) THEN order
                    ELSE Without(order, bufferState.readIndex)
        /\ reads' = <<>>
        /\ wasEmpty' = isEmpty(bufferState)
        /\ NotFresh
        /\ UNCHANGED <<config, iterator>>

clear ==
    /\ bufferState' = CBState_clear(bufferState)
    /\ op' = "clear"
    /\ ret' = undefined
    /\ arr' = <<>>
    /\ warned' = "none"
    /\ thrown' = FALSE
    /\ order' = <<>>
    /\ fresh' = TRUE
    /\ written' = <<>>
    /\ nWritten' = 0
    /\ reads' = <<>>
    /\ wasEmpty' = isEmpty(bufferState)
    /\ UNCHANGED <<config, iterator>>

resize(newCapacity, force) ==
    \E r \in {CBState_resize(bufferState, newCapacity, force)} :
        /\ bufferState' = r.state
        /\ thrown' = r.thrown
        /\ op' = "resize"
        /\ ret' = undefined
        /\ arr' = <<>>
        /\ warned' = "none"
        \* new slot i holds what old slot i held, for i < numElementsToCopy
        /\ order' = IF r.thrown THEN order
                    ELSE SelectSeq(order, LAMBDA k : k < r.state.nElements)
        /\ reads' = <<>>
        /\ wasEmpty' = isEmpty(bufferState)
        /\ NotFresh
        /\ UNCHANGED <<config, iterator>>

toArray(clearAfter) ==
    \E r \in {CircularBuffer_toArray(bufferState, clearAfter)} :
        /\ bufferState' = r.state
        /\ arr' = r.value
        /\ op' = "toArray"
        /\ ret' = undefined
        /\ warned' = "none"
        /\ thrown' = FALSE
        /\ order' = IF clearAfter THEN <<>> ELSE order
        /\ fresh' = IF clearAfter THEN TRUE ELSE FALSE
        /\ written' = <<>>
        /\ nWritten' = 0
        /\ reads' = <<>>
        /\ wasEmpty' = isEmpty(bufferState)
        /\ UNCHANGED <<config, iterator>>

\* for (const value of buffer) { ... } with a body that does not touch the
\* buffer: a whole iteration; arr records the values it yielded.
iterate ==
    /\ arr' = iterateFrom(bufferState, 0)
    /\ op' = "iterate"
    /\ ret' = undefined
    /\ warned' = "none"
    /\ thrown' = FALSE
    /\ reads' = <<>>
    /\ wasEmpty' = isEmpty(bufferState)
    /\ NotFresh
    /\ UNCHANGED <<bufferState, config, order, iterator>>

Next ==
    \/ \E value \in Val : write(value)
    \/ read
    \/ dump
    \/ clear
    \/ \E newCapacity \in Capacities, force \in BOOLEAN : resize(newCapacity, force)
    \/ \E clearAfter \in BOOLEAN : toArray(clearAfter)
    \/ iterate

Spec == Init /\ [][Next]_vars

(***************************************************************************)
(* An iterator used step by step, with other operations of the buffer      *)
(* between its next() calls.                                               *)
(***************************************************************************)

\* get iterator(): a new iterator, index = 0.
iteratorOpen ==
    /\ iterator' = [state |-> "open", index |-> 0,
                    pending |-> CBState_toArray(bufferState), faithful |-> TRUE]
    /\ UNCHANGED <<bufferState, config, op, ret, arr, warned, thrown, order,
                   fresh, written, nWritten, reads, wasEmpty>>

\* The iterator's history after a next() with result r.  Once the iteration
\* has departed from the array it started on, pending is no longer kept.
Followed(it, r) ==
    LET ok == /\ it.faithful
              /\ IF r.done THEN it.pending = <<>>
                 ELSE it.pending # <<>> /\ r.value = Head(it.pending)
    IN  [state |-> IF r.done THEN "done" ELSE "open",
         index |-> r.index,
         pending |-> IF ok /\ ~r.done THEN Tail(it.pending) ELSE <<>>,
         faithful |-> ok]

\* next() of the iterator, until it has reported done.
iteratorNext ==
    /\ iterator.state = "open"
    /\ \E r \in {iterator_next(bufferState, iterator.index)} :
          iterator' = Followed(iterator, r)
    /\ UNCHANGED <<bufferState, config, op, ret, arr, warned, thrown, order,
                   fresh, written, nWritten, reads, wasEmpty>>

\* return() of the iterator: index = 0, so that it starts over.
iteratorReturn ==
    /\ iterator.state = "open"
    /\ iterator' = [state |-> "open", index |-> 0,
                    pending |-> CBState_toArray(bufferState), faithful |-> TRUE]
    /\ UNCHANGED <<bufferState, config, op, ret, arr, warned, thrown, order,
                   fresh, written, nWritten, reads, wasEmpty>>

IterNext ==
    \/ Next
    \/ iteratorOpen
    \/ iteratorNext
    \/ iteratorReturn

IterSpec == Init /\ [][IterNext]_vars

(***************************************************************************)
(* Vocabulary of the properties.                                           *)
(***************************************************************************)

(***************************************************************************)
(* The buffer used as a queue: constructed with the default configuration  *)
(* and then only written and dumped.                                       *)
(***************************************************************************)

\* The constructor's defaults for a config left out.
DefaultConfig ==
    [overwrite |-> FALSE, warnOnFull |-> TRUE, notifyOnOverwrite |-> FALSE]

\* The configurations with the default overflow policy.  notifyOnOverwrite
\* only selects a diagnostic, so both of its values are covered.
DefaultPolicy(cfg) == cfg.overwrite = DefaultConfig.overwrite /\ cfg.warnOnFull = DefaultConfig.warnOnFull

\* new CircularBuffer(capacity), new CircularBuffer(capacity, {notifyOnOverwrite})
FifoInit == Init /\ DefaultPolicy(config)

FifoNext ==
    \/ \E value \in Val : write(value)
    \/ dump

FifoSpec == FifoInit /\ [][FifoNext]_vars

capacity == bufferState.capacity
buffer == bufferState.buffer
readIndex == bufferState.readIndex
writeIndex == bufferState.writeIndex

\* The physical slots of the backing array, in and beyond [0, capacity).
Slots(s) == 0..(Len(s.buffer) - 1)

\* The live element at logical offset i: physical slot (readIndex + i) mod capacity.
Logical(s, i) == Slot(s.buffer, (s.readIndex + i) % s.capacity)

\* The values of the live elements, least recently written first.
LiveValues == [j \in 1..Len(order) |-> Slot(buffer, order[j])]

(***************************************************************************)
(* C1: with overwrite = false, whatever warnOnFull and notifyOnOverwrite   *)
(* are, a write(v) issued while size = capacity is rejected: storage,      *)
(* toArray(), size, readIndex and writeIndex are unchanged by the call.    *)
(***************************************************************************)
C1_FullWriteRejected ==
    [][\A v \in Val :
        (~config.overwrite /\ isFull(bufferState) /\ write(v))
        => /\ bufferState' = bufferState
           /\ CBState_toArray(bufferState') = CBState_toArray(bufferState)]_vars

(***************************************************************************)
(* C2: on a freshly constructed or cleared buffer, after n <= capacity     *)
(* writes and nothing else, size = n and toArray() is the n written values *)
(* in insertion order.                                                     *)
(***************************************************************************)
C2_WritesWithinCapacity ==
    (fresh /\ nWritten <= capacity)
    => /\ size(bufferState) = nWritten
       /\ Len(written) = nWritten
       /\ CBState_toArray(bufferState) = written

\* A fresh buffer filled to its capacity with at least two writes of distinct values.
C2_Witness ==
    /\ fresh /\ op = "write"
    /\ nWritten = capacity /\ nWritten >= 2
    /\ written[1] # written[2]
    /\ CBState_toArray(bufferState) = written

(***************************************************************************)
(* C3: in every reachable state toArray() has length size and its i-th     *)
(* element is the content of physical slot (readIndex + i) mod capacity.   *)
(***************************************************************************)
C3_ToArrayFromReadCursor ==
    /\ Len(CBState_toArray(bufferState)) = size(bufferState)
    /\ \A i \in 0..(size(bufferState) - 1) :
          CBState_toArray(bufferState)[i + 1] = Logical(bufferState, i)

(***************************************************************************)
(* C4: with overwrite = true, a write(v) on a full buffer keeps size =     *)
(* capacity and changes exactly one slot: the slot of the least recently   *)
(* written live element now holds v, every other slot is unchanged.        *)
(***************************************************************************)
C4_OverwriteReplacesOldest ==
    [][\A v \in Val :
        (config.overwrite /\ isFull(bufferState) /\ write(v))
        => /\ size(bufferState') = capacity
           /\ order # <<>>
           /\ Len(buffer') = Len(buffer)
           /\ \A k \in Slots(bufferState) :
                 Slot(buffer', k) = IF k = Head(order) THEN v ELSE Slot(buffer, k)]_vars

(***************************************************************************)
(* C5: with overwrite = true, after n > capacity writes and nothing else,  *)
(* toArray() is the last capacity written values, oldest first, and the    *)
(* next dump() returns the oldest of them.                                 *)
(***************************************************************************)
C5_OverwriteKeepsLastInOrder ==
    (fresh /\ config.overwrite /\ nWritten > capacity)
    => /\ CBState_toArray(bufferState) = LastN(written, capacity)
       /\ CircularBuffer_dump(bufferState).value = Head(LastN(written, capacity))

(***************************************************************************)
(* C6: in every state with size > 0, dump() returns the least recently     *)
(* written live element, empties its slot, decreases size by exactly 1 and *)
(* advances readIndex by 1 modulo capacity.                                *)
(***************************************************************************)
C6_DumpRemovesOldest ==
    [][(dump /\ size(bufferState) > 0)
        => /\ order # <<>>
           /\ ret' = Slot(buffer, Head(order))
           /\ Slot(buffer', Head(order)) = undefined
           /\ size(bufferState') = size(bufferState) - 1
           /\ readIndex' = (readIndex + 1) % capacity]_vars

(***************************************************************************)
(* C7: in every state with size = 0, read() and dump() return undefined    *)
(* without throwing and leave size, capacity, storage, readIndex and       *)
(* writeIndex unchanged.                                                   *)
(***************************************************************************)
C7_EmptyReadDump ==
    [][(isEmpty(bufferState) /\ (read \/ dump))
        => /\ ret' = undefined
           /\ thrown' = FALSE
           /\ size(bufferState') = 0
           /\ bufferState' = bufferState]_vars

\* A dump() on a buffer that earlier writes and dumps have emptied.
C7_Witness ==
    /\ op = "dump" /\ wasEmpty
    /\ ret = undefined
    /\ writeIndex # 0

(***************************************************************************)
(* C8: in every state with size > 0, read() returns a live stored element, *)
(* never undefined.                                                        *)
(***************************************************************************)
C8_ReadReturnsLiveElement ==
    [][(read /\ size(bufferState) > 0)
        => /\ ret' # undefined
           /\ \E j \in 1..Len(order) : ret' = LiveValues[j]]_vars

(***************************************************************************)
(* C9: read() never changes size, capacity, storage or writeIndex; on a    *)
(* non-empty buffer it returns the slot at readIndex and advances          *)
(* readIndex by 1 modulo capacity.  So k consecutive reads starting at     *)
(* readIndex r return slots r, r+1, ..., r+k-1 modulo capacity, cycling    *)
(* with period capacity.                                                   *)
(***************************************************************************)
\* The j-th of the latest consecutive reads returned the slot j - 1 past the
\* read cursor the run started at.
ReadRunCycles ==
    \A j \in 1..Len(reads) :
        reads[j] = Slot(buffer, (readIndex + (MaxCap + 1) * capacity
                                   - Len(reads) + (j - 1)) % capacity)

C10_GrowPreservesElements ==
    [][\A n \in Capacities, force \in BOOLEAN :
        (n >= capacity /\ resize(n, force))
        => /\ size(bufferState') = size(bufferState)
           /\ \A i \in 0..(size(bufferState) - 1) :
                 Slot(buffer', i) = Logical(bufferState, i)]_vars

(***************************************************************************)
(* C11: resize(n, force = false) with n < capacity throws BNCIS and leaves *)
(* capacity, size, storage, readIndex and writeIndex as they were; resize  *)
(* with n >= capacity or with force = true never throws.                   *)
(***************************************************************************)
C11_ShrinkWithoutForceThrows ==
    [][op' = "resize"
        => /\ thrown' => bufferState' = bufferState
           \* no resize(n, force) step throws when it should not, or does not
           \* throw when it should
           /\ \A n \in Capacities, force \in BOOLEAN :
                 (thrown' # (~force /\ n < capacity)) => ~resize(n, force)]_vars

\* A refused shrink of a buffer that holds elements.
C11_Witness ==
    /\ op = "resize" /\ thrown
    /\ size(bufferState) > 0
    /\ capacity >= 2

(***************************************************************************)
(* C12: resize(n, force = true) with n < capacity sets capacity to n and   *)
(* size to min(n, old size), and the buffer then holds exactly the first   *)
(* min(n, old size) logical elements, counted from the old readIndex, in   *)
(* their order.                                                            *)
(***************************************************************************)
C12_ForcedShrinkKeepsFirst ==
    [][\A n \in Capacities :
        (n < capacity /\ resize(n, TRUE))
        => /\ capacity' = n
           /\ size(bufferState') = Min(n, size(bufferState))
           /\ \A i \in 0..(Min(n, size(bufferState)) - 1) :
                 Slot(buffer', i) = Logical(bufferState, i)
           /\ CBState_toArray(bufferState') =
                 [j \in 1..Min(n, size(bufferState)) |-> Logical(bufferState, j - 1)]]_vars

(***************************************************************************)
(* C13: clear() yields size = 0, isEmpty, not isFull, capacity unchanged,  *)
(* readIndex = writeIndex = 0 and every slot empty: the state of a newly   *)
(* constructed buffer of the same capacity and configuration.              *)
(***************************************************************************)
C13_ClearResets ==
    [][clear
        => /\ size(bufferState') = 0
           /\ isEmpty(bufferState') /\ ~isFull(bufferState')
           /\ capacity' = capacity
           /\ readIndex' = 0 /\ writeIndex' = 0
           /\ Len(buffer') = capacity
           /\ \A k \in Slots(bufferState') : Slot(buffer', k) = undefined
           /\ bufferState' = CBState(capacity)
           /\ config' = config]_vars

\* clear() of a buffer that held elements and whose cursors had moved.
C13_Witness ==
    /\ op = "clear" /\ ~wasEmpty
    /\ bufferState = CBState(capacity)
    /\ capacity >= 2

(***************************************************************************)
(* C14: from(values, capacity, config) produces the state (storage,        *)
(* cursors, size) and the toArray() of a fresh buffer of that capacity and *)
(* configuration after writeAll(values), and writeAll(values) is the same  *)
(* as calling write on each element in sequence order.  Here the values    *)
(* are every sequence of at most MaxCap writes issued one by one on a new  *)
(* or cleared buffer.                                                      *)
(***************************************************************************)
C14_FromIsWriteAllIsWrites ==
    (fresh /\ nWritten <= MaxCap)
    => /\ Len(written) = nWritten
       /\ bufferState = CircularBuffer_writeAll(config, CBState(capacity), written)
       /\ bufferState = CircularBuffer_from(written, capacity, config)
       /\ CBState_toArray(bufferState) =
             CBState_toArray(CircularBuffer_from(written, capacity, config))

\* More values than the capacity, the first ones distinct, written one by one.
C14_Witness ==
    /\ fresh /\ op = "write"
    /\ nWritten = MaxCap /\ nWritten > capacity
    /\ written[1] # written[2]
    /\ bufferState = CircularBuffer_from(written, capacity, config)

(***************************************************************************)
(* C15: a write prints the overwrite diagnostic if and only if overwrite   *)
(* is true, notifyOnOverwrite is true and writeIndex is 0 right after the  *)
(* write; a buffer with overwrite = false never prints it.                 *)
(***************************************************************************)
C15_OverwriteNoticeOnlyWhenOverwriting ==
    [][\A v \in Val :
        write(v)
        => (warned' = "overwrite"
              <=> (config.overwrite /\ config.notifyOnOverwrite /\ writeIndex' = 0))]_vars

(***************************************************************************)
(* C17: in every reachable state both cursors are in range,                *)
(* 0 <= readIndex < capacity and 0 <= writeIndex < capacity, and the       *)
(* storage length equals capacity.                                         *)
(***************************************************************************)
C17_CursorsInRange ==
    /\ 0 <= readIndex /\ readIndex < capacity
    /\ 0 <= writeIndex /\ writeIndex < capacity
    /\ Len(buffer) = capacity

(***************************************************************************)
(* C18: in every reachable state 0 <= size <= capacity, isFull holds       *)
(* exactly when size = capacity and isEmpty exactly when size = 0; in      *)
(* overwrite mode a write on a full buffer leaves size at capacity, and    *)
(* dump() takes size from n > 0 to n - 1 and leaves size 0 at 0.           *)
(***************************************************************************)
SizeInRange ==
    /\ 0 <= bufferState.nElements /\ bufferState.nElements <= capacity
    /\ isFull(bufferState) <=> (bufferState.nElements = capacity)
    /\ isEmpty(bufferState) <=> (bufferState.nElements = 0)

C18_SizeBounded ==
    [][/\ SizeInRange /\ SizeInRange'
       \* by contraposition: a step that does otherwise is no such write, no dump
       /\ (/\ op' = "write" /\ config.overwrite /\ isFull(bufferState)
           /\ bufferState.nElements' # capacity')
            => \A v \in Val : ~write(v)
       /\ (/\ op' = "dump"
           /\ bufferState.nElements' # Max(0, bufferState.nElements - 1))
            => ~dump]_vars

\* A write on a full buffer in overwrite mode.
C18_Witness ==
    /\ config.overwrite /\ op = "write"
    /\ fresh /\ nWritten > capacity
    /\ isFull(bufferState)
    /\ capacity >= 2

(***************************************************************************)
(* C20: in every reachable state size is the number of slots in            *)
(* [0, capacity) that hold a value, and the slots that hold a value are    *)
(* exactly the size slots (readIndex + i) mod capacity, i < size.          *)
(***************************************************************************)
C20_SizeCountsLiveSlots ==
    /\ size(bufferState) =
          Cardinality({k \in 0..(capacity - 1) : Slot(buffer, k) # undefined})
    /\ \A k \in 0..(capacity - 1) :
          Slot(buffer, k) # undefined
             <=> \E i \in 0..(size(bufferState) - 1) : k = (readIndex + i) % capacity

\* A step that leaves storage, cursors, size and capacity as they were.
ReadOnlyStep ==
    /\ buffer' = buffer
    /\ readIndex' = readIndex /\ writeIndex' = writeIndex
    /\ size(bufferState') = size(bufferState)
    /\ capacity' = capacity

\* A step that returns the array toArray() gives in the state before it.
ReturnsArrayBefore == arr' = CBState_toArray(bufferState)

\* A step that leaves the buffer cleared.
ClearedAfter ==
    /\ size(bufferState') = 0
    /\ readIndex' = 0 /\ writeIndex' = 0
    /\ capacity' = capacity

(***************************************************************************)
(* C16: toArray() without clearing and a complete iteration are read-only: *)
(* storage, readIndex, writeIndex, size and capacity are unchanged.        *)
(* toArray(true) returns the array toArray(false) would have returned and  *)
(* leaves the cleared buffer: size 0 and both cursors 0.  Stated by        *)
(* contraposition: a step that does otherwise is none of these calls.      *)
(***************************************************************************)
C16_ViewsReadOnlyClearAfter ==
    [][/\ (op' = "iterate" /\ ~ReadOnlyStep) => ~iterate
       /\ (op' = "toArray" /\ ~(ReadOnlyStep /\ ReturnsArrayBefore))
            => ~toArray(FALSE)
       /\ (op' = "toArray" /\ ~(ClearedAfter /\ ReturnsArrayBefore))
            => ~toArray(TRUE)]_vars

\* toArray(true) of a buffer that held elements: they are returned and the
\* buffer is left cleared.
C16_Witness ==
    /\ op = "toArray" /\ ~wasEmpty
    /\ arr # <<>>
    /\ size(bufferState) = 0 /\ readIndex = 0 /\ writeIndex = 0

(***************************************************************************)
(* C19: iteration has snapshot semantics.  An iteration started when       *)
(* toArray() is S yields exactly the elements of S, in order, and then     *)
(* reports done, whatever write, read, dump, clear or resize happen        *)
(* between its next() calls.                                               *)
(***************************************************************************)
C19_IterationSnapshot ==
    iterator.faithful

\* Every element that was live before the step is still stored after it, in
\* its slot and in its place among the live elements.
LiveKept ==
    /\ Len(order') >= Len(order)
    /\ \A j \in 1..Len(order) :
          /\ order'[j] = order[j]
          /\ Slot(buffer', order[j]) = Slot(buffer, order[j])

(***************************************************************************)
(* C21: with size < capacity, in any configuration, write(v) is            *)
(* non-destructive: size grows by exactly 1, v is stored in a slot that    *)
(* was empty, and every element live before the write is still stored.  A  *)
(* write replaces a live element only when the buffer is full and          *)
(* overwrite is true.                                                      *)
(***************************************************************************)
C21_WriteNonDestructive ==
    [][op' = "write"
        => \A v \in Val :
              write(v)
              => /\ size(bufferState) < capacity
                    => /\ size(bufferState') = size(bufferState) + 1
                       /\ \E k \in Slots(bufferState') :
                             /\ Slot(buffer, k) = undefined
                             /\ Slot(buffer', k) = v
                       /\ LiveKept
                 /\ ~LiveKept => (isFull(bufferState) /\ config.overwrite)]_vars

\* writeIndex is readIndex advanced by the number of elements stored.
CursorsAgree(s) == s.writeIndex = (s.readIndex + size(s)) % s.capacity

(***************************************************************************)
(* C22: with the default configuration (overwrite = false, warnOnFull =    *)
(* true) and only write and dump, the buffer is a bounded FIFO queue.      *)
(* writeIndex = (readIndex + size) mod capacity in every state; a write is *)
(* accepted exactly when the buffer is not full and then joins the end of  *)
(* the queue, a rejected write changes nothing; a dump of a non-empty      *)
(* buffer returns and removes the oldest accepted value not yet dumped and *)
(* takes size down by 1; a dump of an empty buffer returns undefined.      *)
(***************************************************************************)
C22_BoundedFifo ==
    [][/\ CursorsAgree(bufferState) /\ CursorsAgree(bufferState')
       /\ Len(LiveValues) = size(bufferState)
       /\ op' = "write"
            => \A v \in Val :
                  write(v)
                  => IF isFull(bufferState)
                     THEN bufferState' = bufferState /\ LiveValues' = LiveValues
                     ELSE /\ LiveValues' = Append(LiveValues, v)
                          /\ size(bufferState') = size(bufferState) + 1
       /\ (op' = "dump" /\ dump)
            => IF isEmpty(bufferState)
               THEN ret' = undefined /\ bufferState' = bufferState
               ELSE /\ ret' = Head(LiveValues)
                    /\ ret' # undefined
                    /\ LiveValues' = Tail(LiveValues)
                    /\ size(bufferState') = size(bufferState) - 1]_vars

\* A dump that brought the read cursor round to slot 0 again and returned a
\* value, with a value written since the first dump still queued.
C22_Witness ==
    /\ DefaultPolicy(config)
    /\ op = "dump" /\ ret # undefined
    /\ capacity >= 2 /\ readIndex = 0
    /\ size(bufferState) = 1

====
